---- MODULE Spec2Model ----
(***************************************************************************)
(* Model of streamlit_app.py: the five cached warehouse fetches            *)
(* (st.cache_data with ttl 10 / 30), the sidebar controls, one script run  *)
(* (a "cycle") from the sidebar to the trailing time.sleep / st.rerun, and *)
(* the metrics the run derives from the raw order table.                   *)
(*                                                                         *)
(* Host runtime facts the script relies on (Streamlit):                    *)
(*   - st.cache_data(ttl=N) memoises the RETURN VALUE of the decorated     *)
(*     function together with the st.* elements it emitted; an entry is    *)
(*     served while its age is below N seconds; a call that raises stores  *)
(*     nothing; the elements are replayed on a hit;                        *)
(*   - st.cache_resource keeps the client once it was built, and keeps     *)
(*     nothing when the function raises;                                   *)
(*   - st.cache_data.clear() empties every st.cache_data cache and leaves  *)
(*     st.cache_resource alone;                                            *)
(*   - the script runs top to bottom once per user interaction or          *)
(*     st.rerun(); st.button is True only in the run its click started.    *)
(***************************************************************************)
EXTENDS Integers, Sequences, FiniteSets, TLC

\* ---------------------------------------------------------------- bounds
MaxTime == 35
MaxRows == 3

\* ------------------------------------------------------ program constants
OrdersTTL == 10
ViewTTL == 30
MinInterval == 5
MaxInterval == 60
DefaultInterval == 15

\* The slider values the model tries: both ends that fit in MaxTime and the default.
Intervals == {i \in {MinInterval, DefaultInterval, MaxInterval} : i <= MaxTime}

\* How long after the script stopped a user interaction may come: at once, or
\* after the shortest interval.
TriggerDelays == {0, MinInterval}

\* Line 986: the range and the default of the "Nombre de lignes" slider.
MinLimit == 10
MaxLimit == 500
DefaultLimit == 100

\* ------------------------------------------------------------ query names
Views == {"age", "gender", "location", "age_gender"}
Queries == {"orders"} \cup Views

\* ------------------------------------------------------------------ tables
\* A row of the order table, reduced to the columns whose VALUES the modelled
\* code reads. Every column is nullable: "NA" is the null of a label column.
\* is_anomaly is a nullable BOOL column: "True", "False" or "NA".
AnomalyFlags == {"True", "False", "NA"}
Amounts == {10, 20, 30}
Segments == {"VIP", "Regular", "NA"}
AmountCategories == {"Premium", "Standard", "NA"}
Categories == {"Clothing", "Footwear", "NA"}
Locations == {"Ohio", "Texas", "NA"}

\* Line 891: the order the satisfaction levels are shown in.
satisfaction_order == << "Very Satisfied", "Satisfied", "Neutral", "Dissatisfied" >>

\* The labels the enrichment may attach: the four of satisfaction_order, a
\* label outside of it, and null.
OtherLevel == "Very Dissatisfied"
SatisfactionLevels ==
    {satisfaction_order[i] : i \in 1..Len(satisfaction_order)} \cup {OtherLevel, "NA"}

\* purchase_amount_usd is 0 in the rows of a table that has no such column.
Rows ==
    [ is_anomaly : AnomalyFlags,
      purchase_amount_usd : Amounts \cup {0},
      customer_segment : Segments,
      amount_category : AmountCategories,
      category : Categories,
      location : Locations,
      satisfaction_level : SatisfactionLevels ]

\* The columns the orders query selects (lines 165-186), as far as the
\* modelled code tests or reads them.
OrderColumns ==
    { "processed_time", "is_anomaly", "purchase_amount_usd", "customer_segment",
      "amount_category", "category", "location", "satisfaction_level",
      "estimated_clv", "estimated_profit_usd" }
ViewColumns == {"dimension", "orders"}

\* A DataFrame: its column names and its rows in order.
DataFrame(cols, rws) == [columns |-> cols, rows |-> rws]

\* pd.DataFrame(): no column, no row.
EmptyDataFrame == DataFrame({}, << >>)

RECURSIVE SeqsUpTo(_, _)
SeqsUpTo(S, n) ==
    IF n = 0 THEN {<< >>}
    ELSE LET shorter == SeqsUpTo(S, n - 1)
         IN  shorter \cup {Append(t, r) : t \in {u \in shorter : Len(u) = n - 1}, r \in S}

\* An ordinary order: no anomaly, a regular customer, a standard amount.
PlainRow ==
    [ is_anomaly |-> "False", purchase_amount_usd |-> 10, customer_segment |-> "Regular",
      amount_category |-> "Standard", category |-> "Clothing", location |-> "Ohio",
      satisfaction_level |-> "Neutral" ]

\* The rows of a table without the columns `absent`: no value in them.
Blank(row, absent) ==
    [ is_anomaly |-> IF "is_anomaly" \in absent THEN "NA" ELSE row.is_anomaly,
      purchase_amount_usd |->
          IF "purchase_amount_usd" \in absent THEN 0 ELSE row.purchase_amount_usd,
      customer_segment |->
          IF "customer_segment" \in absent THEN "NA" ELSE row.customer_segment,
      amount_category |-> IF "amount_category" \in absent THEN "NA" ELSE row.amount_category,
      category |-> IF "category" \in absent THEN "NA" ELSE row.category,
      location |-> IF "location" \in absent THEN "NA" ELSE row.location,
      satisfaction_level |->
          IF "satisfaction_level" \in absent THEN "NA" ELSE row.satisfaction_level ]

\* df as the warehouse would answer it without the columns `absent`.
Without(df, absent) ==
    DataFrame(df.columns \ absent, [i \in 1..Len(df.rows) |-> Blank(df.rows[i], absent)])

\* The order tables the metric code is applied to are drawn from families,
\* each varying the columns one group of metrics reads.
\* Anomaly flag and amount (headline metrics, tab 7).
AnomalyRows ==
    { [PlainRow EXCEPT !.is_anomaly = f, !.purchase_amount_usd = a] :
         f \in AnomalyFlags, a \in {10, 20} }

\* Segment and amount category, a Premium amount being the larger one
\* (headline metrics, tabs 6 and 8).
SegmentRows ==
    { [PlainRow EXCEPT !.customer_segment = g, !.amount_category = "Premium",
                       !.purchase_amount_usd = 20] : g \in Segments }
    \cup { [PlainRow EXCEPT !.customer_segment = g] : g \in Segments }

\* Category and location (the filters).
FilterRows ==
    { [PlainRow EXCEPT !.category = c, !.location = l] :
         c \in {"Clothing", "Footwear"}, l \in {"Ohio", "Texas"} }

\* Satisfaction level (the pivot of tab 8): an order of each level, one
\* without level and one without category.
SatisfactionRows ==
    << [PlainRow EXCEPT !.satisfaction_level = "Dissatisfied"],
       [PlainRow EXCEPT !.satisfaction_level = "Very Satisfied"],
       [PlainRow EXCEPT !.satisfaction_level = OtherLevel],
       [PlainRow EXCEPT !.satisfaction_level = "Neutral"],
       [PlainRow EXCEPT !.satisfaction_level = "Satisfied"],
       [PlainRow EXCEPT !.satisfaction_level = "NA"],
       [PlainRow EXCEPT !.category = "NA", !.satisfaction_level = "Satisfied"] >>

\* The tables made of any of these orders, in the order above.
SatisfactionTables ==
    { DataFrame(OrderColumns, SelectSeq(SatisfactionRows, LAMBDA r : r \in chosen)) :
         chosen \in SUBSET {SatisfactionRows[i] : i \in 1..Len(SatisfactionRows)} }

\* The three orders of the scenario: 10 VIP Premium, 20 Regular Standard,
\* 30 VIP Premium.
ScenarioTable ==
    DataFrame(OrderColumns,
        << [PlainRow EXCEPT !.customer_segment = "VIP", !.amount_category = "Premium"],
           [PlainRow EXCEPT !.purchase_amount_usd = 20],
           [PlainRow EXCEPT !.purchase_amount_usd = 30, !.customer_segment = "VIP",
                            !.amount_category = "Premium"] >>)

\* A table with an anomaly of a VIP customer with a premium amount, from
\* which any set of columns may be missing.
SchemaBase ==
    DataFrame(OrderColumns,
        << [PlainRow EXCEPT !.is_anomaly = "True", !.purchase_amount_usd = 20,
                            !.customer_segment = "VIP", !.amount_category = "Premium"],
           PlainRow >>)

\* A table longer than the smallest display limit, and still longer once
\* its first order (the only one of its category and location) is filtered
\* out; its last order is the only one of amount 30.
LongTable ==
    DataFrame(OrderColumns,
        [ i \in 1..(MinLimit + 2) |->
            IF i = 1 THEN [PlainRow EXCEPT !.category = "Footwear", !.location = "Texas"]
            ELSE IF i = MinLimit + 2 THEN [PlainRow EXCEPT !.purchase_amount_usd = 30]
            ELSE [PlainRow EXCEPT !.purchase_amount_usd = IF i % 2 = 0 THEN 10 ELSE 20,
                                  !.is_anomaly = IF i = 2 THEN "True" ELSE "False"] ])

TablesOf(rowset, n) == {DataFrame(OrderColumns, r) : r \in SeqsUpTo(rowset, n)}

\* Every order table the metric code is applied to: the tables of at most
\* MaxRows rows of each family, the tables of satisfaction levels, the
\* scenario, the long table, the tables without the is_anomaly column (their rows then
\* carrying no flag) and the schema base without any set of columns.
AllTables ==
    TablesOf(AnomalyRows, MaxRows)
    \cup {Without(t, {"is_anomaly"}) : t \in TablesOf(AnomalyRows, MaxRows)}
    \cup TablesOf(SegmentRows, MaxRows)
    \cup TablesOf(FilterRows, MaxRows)
    \cup SatisfactionTables
    \cup {ScenarioTable, LongTable}
    \cup {Without(SchemaBase, absent) : absent \in (SUBSET OrderColumns) \ {OrderColumns}}

\* What the warehouse may answer to the orders query in a cycle: no row, a
\* table without anomaly, a table with an anomaly of a VIP customer and a row
\* whose flag and segment are null.
OrdersResults ==
    { DataFrame(OrderColumns, << >>),
      DataFrame(OrderColumns, << PlainRow >>),
      DataFrame(OrderColumns,
          << [PlainRow EXCEPT !.is_anomaly = "True", !.purchase_amount_usd = 20,
                              !.customer_segment = "VIP", !.amount_category = "Premium"],
             [PlainRow EXCEPT !.is_anomaly = "NA", !.customer_segment = "NA"] >>) }

\* What the warehouse may answer to a view query: the view's rows are opaque.
ViewResults == { DataFrame(ViewColumns, << [dimension |-> "k", orders |-> 1] >>) }

QueryResults(q) == IF q = "orders" THEN OrdersResults ELSE ViewResults

\* DataFrame.empty: no row or no column.
IsEmpty(df) == Len(df.rows) = 0 \/ df.columns = {}

\* ------------------------------------------------------------ st.cache_data
TTL(q) == IF q = "orders" THEN OrdersTTL ELSE ViewTTL

NoEntry == [present |-> FALSE]

\* A cache entry: the value the function returned, when, and the st.* elements
\* it emitted while running (replayed on a hit).
Entry(t, df, els) == [present |-> TRUE, ts |-> t, table |-> df, elements |-> els]

\* Variant: an entry whose age equals the ttl is still served.
IsLiveInclusive(e, q, t) == e.present /\ t - e.ts <= TTL(q)

\* An entry is served while its age is below the ttl of its function.
IsLive(e, q, t) == e.present /\ t - e.ts < TTL(q)

\* Variant: fetch_latest_orders.clear(), the other functions keep their entries.
ClearOrdersOnly(c) == [c EXCEPT !["orders"] = NoEntry]

\* st.cache_data.clear(): the entries of every cached function go.
Clear(c) == [q \in Queries |-> NoEntry]

\* Variant: a hit returns the value only.
ReplayedNothing(e) == {}

\* A hit replays the st.* elements the function emitted when it ran.
Replayed(e) == e.elements

\* Variant: a function without the decorator, nothing is kept.
StoredNothing(c, q, e) == c

\* Variant: a cache of one slot, storing an entry drops the others.
StoredAlone(c, q, e) == [r \in Queries |-> IF r = q THEN e ELSE NoEntry]

\* The decorator stores what the function returned.
Stored(c, q, e) == [c EXCEPT ![q] = e]

\* --------------------------------------------------------- st.* elements
Element(lvl, what) == [level |-> lvl, about |-> what]

AuthError == Element("error", "auth")
RefreshedNotice == Element("success", "refresh")
NoDataWarning == Element("warning", "no_data")
CycleError == Element("error", "cycle")

\* Variant: the except clause returns the empty frame without a notice.
OnQueryFailureSilent(q) ==
    [raises |-> FALSE, table |-> EmptyDataFrame, elements |-> {}]

\* Variant: no except clause, the query's exception leaves the function.
OnQueryFailureRaises(q) ==
    [raises |-> TRUE, table |-> EmptyDataFrame, elements |-> {}]

\* except Exception of a fetch function: fetch_latest_orders reports with
\* st.error (both branches), each view fetch with st.warning; all of them
\* return pd.DataFrame() instead of raising.
OnQueryFailure(q) ==
    [ raises |-> FALSE,
      table |-> EmptyDataFrame,
      elements |-> {Element(IF q = "orders" THEN "error" ELSE "warning", q)} ]

\* ---------------------------------------------------------------- metrics
PercentScale == 100

\* What a computation that raised leaves: indexing a DataFrame (or naming in
\* an aggregate) a column it does not have raises KeyError.
KeyError == [shown |-> "raised", error |-> "KeyError"]

Has(df, cols) == cols \subseteq df.columns

\* Series.unique(): the values of a column, null included.
Unique(rws, col) == {rws[i][col] : i \in 1..Len(rws)}

\* A quotient n / d as Python's division computes it: the exact ratio, or
\* ZeroDivisionError when d = 0.
DivisionFault == [fault |-> "ZeroDivisionError"]
Quotient(n, d) == IF d = 0 THEN DivisionFault ELSE [num |-> n, den |-> d]
Zero == [num |-> 0, den |-> 1]

\* Series.mean(): the ratio, or NaN (no exception) for an empty series.
NaN == [nan |-> TRUE]
Mean(total, n) == IF n = 0 THEN NaN ELSE [num |-> total, den |-> n]

RECURSIVE SumAmount(_)
SumAmount(rws) ==
    IF Len(rws) = 0 THEN 0 ELSE Head(rws).purchase_amount_usd + SumAmount(Tail(rws))

\* groupby(col)['purchase_amount_usd'].sum(): per value of col, null left
\* out, the sum of the amounts.
GroupSum(rws, col) ==
    [ k \in Unique(rws, col) \ {"NA"} |-> SumAmount(SelectSeq(rws, LAMBDA r : r[col] = k)) ]

\* value_counts(): per value of col, null left out, the number of rows.
GroupCount(rws, col) ==
    [ k \in Unique(rws, col) \ {"NA"} |-> Len(SelectSeq(rws, LAMBDA r : r[col] = k)) ]

\* Series.sum() of the nullable boolean column: the rows that are True (NA is skipped).
RECURSIVE CountTrue(_)
CountTrue(rws) ==
    IF Len(rws) = 0 THEN 0
    ELSE (IF Head(rws).is_anomaly = "True" THEN 1 ELSE 0) + CountTrue(Tail(rws))

\* orders_df[orders_df['is_anomaly'] == True]
RECURSIVE SelectAnomalies(_)
SelectAnomalies(rws) ==
    IF Len(rws) = 0 THEN << >>
    ELSE IF Head(rws).is_anomaly = "True"
         THEN << Head(rws) >> \o SelectAnomalies(Tail(rws))
         ELSE SelectAnomalies(Tail(rws))

total_orders(df) == Len(df.rows)

total_revenue(df) ==
    IF "purchase_amount_usd" \in df.columns THEN SumAmount(df.rows) ELSE 0

anomalies_count(df) ==
    IF "is_anomaly" \in df.columns THEN CountTrue(df.rows) ELSE 0

\* Variant: the division without its guard.
AnomalyDeltaUnguarded(df) ==
    Quotient(anomalies_count(df) * PercentScale, total_orders(df))

\* The delta of the anomalies metric: anomalies_count / total_orders * 100 when
\* total_orders > 0, else the literal "0%".
AnomalyDelta(df) ==
    IF total_orders(df) > 0
    THEN Quotient(anomalies_count(df) * PercentScale, total_orders(df))
    ELSE Zero

\* Variant: the metrics are those of the latest order alone, not of the
\* table the tabs are computed from.
HeadlineMetricsOfLatest(df) ==
    LET latest == DataFrame(df.columns, SubSeq(df.rows, 1, 1))
    IN  [ total_orders |-> total_orders(latest),
          total_revenue |-> total_revenue(latest),
          avg_order_value |-> IF "purchase_amount_usd" \in latest.columns
                              THEN Mean(SumAmount(latest.rows), Len(latest.rows))
                              ELSE Zero,
          anomalies_count |-> anomalies_count(latest),
          anomaly_delta |-> AnomalyDelta(latest) ]

\* The headline metrics of one run.
HeadlineMetrics(df) ==
    [ total_orders |-> total_orders(df),
      total_revenue |-> total_revenue(df),
      avg_order_value |-> IF "purchase_amount_usd" \in df.columns
                          THEN Mean(SumAmount(df.rows), Len(df.rows))
                          ELSE Zero,
      anomalies_count |-> anomalies_count(df),
      anomaly_delta |-> AnomalyDelta(df) ]

NoMetrics == [total_orders |-> -1]

\* Tab 7: anomaly_rate = len(anomalies_df) / len(orders_df) * 100 when
\* len(orders_df) > 0, else 0.
anomaly_rate(anomalies_rows, df) ==
    IF Len(df.rows) > 0
    THEN Quotient(Len(anomalies_rows) * PercentScale, Len(df.rows))
    ELSE Zero

\* Tab 7 as a whole: the anomaly subset and its figures, or the notice shown
\* when there is no is_anomaly column / no anomaly.
\* Line 762 reads purchase_amount_usd and line 769 groups by category without
\* testing the columns: KeyError when one is missing.
AnomalyTab(df) ==
    IF "is_anomaly" \in df.columns
    THEN LET anomalies_df == SelectAnomalies(df.rows)
         IN  IF Len(anomalies_df) > 0
             THEN IF Has(df, {"purchase_amount_usd", "category"})
                  THEN [ shown |-> "figures",
                         anomalies_df |-> anomalies_df,
                         count |-> Len(anomalies_df),
                         anomaly_rate |-> anomaly_rate(anomalies_df, df),
                         total |-> SumAmount(anomalies_df) ]
                  ELSE KeyError
             ELSE [shown |-> "no_anomaly"]
    ELSE [shown |-> "no_column"]

NoTab == [shown |-> "not_run"]

\* ----------------------------------------------------- tab 1: the overview
\* Lines 373-462. With processed_time the hourly aggregate reads
\* purchase_amount_usd (line 377); category_counts (426), category_revenue
\* (440) and the histogram (455) read category and purchase_amount_usd. None
\* of these reads tests the column: KeyError when one is missing.
\* value_counts and groupby leave out the orders without category.
OverviewTab(df) ==
    IF Has(df, {"category", "purchase_amount_usd"})
    THEN [ shown |-> "charts",
           category_counts |-> GroupCount(df.rows, "category"),
           category_revenue |-> GroupSum(df.rows, "category") ]
    ELSE KeyError

\* ------------------------------------------------- tab 6: VIP and Premium
\* Variant: every order of a VIP customer, whatever its amount category.
vip_premium_df_any_amount(df) ==
    SelectSeq(df.rows, LAMBDA r : r.customer_segment = "VIP")

\* Lines 685-686: the orders of VIP customers with a Premium amount.
vip_premium_df(df) ==
    SelectSeq(df.rows, LAMBDA r : r.customer_segment = "VIP" /\ r.amount_category = "Premium")

\* Lines 684-745. The figures are shown when the two label columns exist and
\* the subset is not empty; they read purchase_amount_usd (693), group by
\* category (703) and aggregate estimated_clv (705, 'count' instead of 'mean'
\* when the column is missing, which is a KeyError too).
VipTab(df) ==
    IF Has(df, {"customer_segment", "amount_category"})
    THEN LET vip == vip_premium_df(df)
         IN  IF Len(vip) > 0
             THEN IF Has(df, {"purchase_amount_usd", "category", "estimated_clv"})
                  THEN [ shown |-> "figures",
                         vip_premium_df |-> vip,
                         count |-> Len(vip),
                         total_revenue |-> SumAmount(vip),
                         avg_vip_premium |-> Mean(SumAmount(vip), Len(vip)),
                         vip_category |-> GroupSum(vip, "category") ]
                  ELSE KeyError
             ELSE [shown |-> "no_vip_premium"]
    ELSE [shown |-> "no_column"]

\* ------------------------------------------ tab 8: segments, satisfaction
\* groupby sorts its keys: the segment labels in alphabetical order.
SegmentKeyOrder == << "Regular", "VIP" >>

\* Insert row r in the sequence t, sorted by total_revenue in descending
\* order, after the rows with the same total.
RECURSIVE InsertDesc(_, _)
InsertDesc(r, t) ==
    IF Len(t) = 0 THEN << r >>
    ELSE IF Head(t).total_revenue >= r.total_revenue
         THEN << Head(t) >> \o InsertDesc(r, Tail(t))
         ELSE << r >> \o t

\* sort_values('total_revenue', ascending=False)
RECURSIVE SortDesc(_)
SortDesc(t) == IF Len(t) = 0 THEN << >> ELSE InsertDesc(Head(t), SortDesc(Tail(t)))

\* Lines 830-836: one row per customer segment with the sum, the mean and
\* the count of its purchase amounts, sorted by the sum in descending order.
\* groupby drops the orders whose segment is null. The aggregate names
\* purchase_amount_usd and estimated_profit_usd ('count' instead of 'sum'
\* when the column is missing): KeyError when one is missing.
revenue_by_segment(df) ==
    IF "customer_segment" \in df.columns
    THEN IF Has(df, {"purchase_amount_usd", "estimated_profit_usd"})
         THEN LET present == SelectSeq(SegmentKeyOrder,
                                 LAMBDA k : k \in Unique(df.rows, "customer_segment"))
                  group(k) == SelectSeq(df.rows, LAMBDA r : r.customer_segment = k)
                  grouped == [ i \in 1..Len(present) |->
                                 [ segment |-> present[i],
                                   total_revenue |-> SumAmount(group(present[i])),
                                   avg_revenue |-> Mean(SumAmount(group(present[i])),
                                                        Len(group(present[i]))),
                                   count |-> Len(group(present[i])) ] ]
              IN  [shown |-> "table", rows |-> SortDesc(grouped)]
         ELSE KeyError
    ELSE [shown |-> "no_column"]

\* The labels of the model in the order pivot_table leaves its columns in
\* (sorted).
SortedLevels ==
    << "Dissatisfied", "Neutral", "Satisfied", "Very Dissatisfied", "Very Satisfied" >>

\* Variant: the pivot keeps the columns as pivot_table sorted them.
ReorderedKept(columns) == columns

\* Lines 891-894: the levels of satisfaction_order that are columns of the
\* pivot, in that order, replace the pivot's columns unless there is none.
Reordered(columns) ==
    LET available_levels ==
            SelectSeq(satisfaction_order,
                      LAMBDA level : \E i \in 1..Len(columns) : columns[i] = level)
    IN  IF available_levels # << >> THEN available_levels ELSE columns

\* Lines 872-894: the orders are grouped by category and satisfaction level
\* (the orders without one of the two are dropped; the aggregate reads
\* purchase_amount_usd without testing it), pivoted with one column per
\* level, and the columns are put in the order of satisfaction_order.
pivot_satisfaction(df) ==
    IF Has(df, {"satisfaction_level", "category"})
    THEN IF "purchase_amount_usd" \in df.columns
         THEN LET grouped == SelectSeq(df.rows,
                                 LAMBDA r : r.category # "NA" /\ r.satisfaction_level # "NA")
                  levels == Unique(grouped, "satisfaction_level")
                  columns == SelectSeq(SortedLevels, LAMBDA l : l \in levels)
              IN  [ shown |-> "pivot",
                    index |-> Unique(grouped, "category"),
                    columns |-> Reordered(columns) ]
         ELSE KeyError
    ELSE [shown |-> "no_column"]

\* Tab 8 as a whole: the segment table, then the pivot unless the segment
\* table raised.
AdvancedTab(df) ==
    LET segments == revenue_by_segment(df)
    IN  [ revenue_by_segment |-> segments,
          pivot_satisfaction |-> IF segments.shown = "raised" THEN NoTab
                                 ELSE pivot_satisfaction(df) ]

NoAdvancedTab == [revenue_by_segment |-> NoTab, pivot_satisfaction |-> NoTab]

\* --------------------------------------------- the filters and the table
\* The slider values the model tries.
DisplayLimits == {MinLimit, DefaultLimit}

\* Lines 976, 982: a multiselect offers the values of its column, or nothing
\* without the column; its selection is a subset of what it offers.
FilterOptions(df, col) == IF col \in df.columns THEN Unique(df.rows, col) ELSE {}

\* frame[frame[col].isin(values)]
Isin(rws, col, values) == SelectSeq(rws, LAMBDA r : r[col] \in values)

\* Variant: an empty selection keeps nothing.
KeepStrict(rws, col, selection) == Isin(rws, col, selection)

\* Lines 990-993: a selection that is not empty keeps the rows whose value
\* is selected; an empty one keeps all the rows.
Keep(rws, col, selection) == IF selection # {} THEN Isin(rws, col, selection) ELSE rws

\* Variant: the location filter is applied to orders_df, not to what the
\* category filter kept.
filtered_df_last_wins(df, categories_filter, locations_filter) ==
    DataFrame(df.columns,
        IF locations_filter # {} THEN Keep(df.rows, "location", locations_filter)
        ELSE Keep(df.rows, "category", categories_filter))

\* Lines 989-993: a copy of orders_df, filtered by category then by location.
filtered_df(df, categories_filter, locations_filter) ==
    DataFrame(df.columns,
        Keep(Keep(df.rows, "category", categories_filter), "location", locations_filter))

\* Lines 996-999, as far as the modelled columns go.
display_columns ==
    { "processed_time", "category", "purchase_amount_usd", "amount_category",
      "customer_segment", "satisfaction_level", "is_anomaly", "location" }

\* DataFrame.head(n)
HeadRows(rws, n) == SubSeq(rws, 1, IF n < Len(rws) THEN n ELSE Len(rws))

\* Variant: the first limit_display rows of orders_df are taken, then
\* filtered.
DisplayTableHeadFirst(df, categories_filter, locations_filter, limit_display) ==
    LET filtered == filtered_df(df, categories_filter, locations_filter)
        cut == filtered_df(DataFrame(df.columns, HeadRows(df.rows, limit_display)),
                           categories_filter, locations_filter)
    IN  [ shown |-> "table",
          categories_filter |-> categories_filter,
          locations_filter |-> locations_filter,
          limit_display |-> limit_display,
          filtered_df |-> filtered,
          displayed |-> DataFrame(display_columns \cap cut.columns, cut.rows),
          caption |-> [ lines |-> IF limit_display < Len(filtered.rows)
                                  THEN limit_display ELSE Len(filtered.rows),
                        total |-> Len(filtered.rows) ] ]

\* Lines 972-1008: the widgets' values, the filtered copy, the table shown
\* and its caption.
DisplayTable(df, categories_filter, locations_filter, limit_display) ==
    LET filtered == filtered_df(df, categories_filter, locations_filter)
    IN  [ shown |-> "table",
          categories_filter |-> categories_filter,
          locations_filter |-> locations_filter,
          limit_display |-> limit_display,
          filtered_df |-> filtered,
          displayed |-> DataFrame(display_columns \cap filtered.columns,
                                  HeadRows(filtered.rows, limit_display)),
          caption |-> [ lines |-> IF limit_display < Len(filtered.rows)
                                  THEN limit_display ELSE Len(filtered.rows),
                        total |-> Len(filtered.rows) ] ]

\* ------------------------------------------------------------------ state
VARIABLES
    now,              \* wall clock, in seconds
    client,           \* st.cache_resource holds the BigQuery client
    cache,            \* st.cache_data: query name -> entry
    lastQuery,        \* per query: when client.query last ran since the last clear (-1: never)
    calls,            \* per query: how this run's call of its fetch function was answered
    cleared,          \* the queries whose live entry this run's st.cache_data.clear() evicted
    pc,               \* where the script is
    auto_refresh,     \* sidebar checkbox, as read by this run
    refresh_interval, \* sidebar slider, as read by this run
    button,           \* "Actualiser maintenant" clicked: True in the run the click started
    startedBy,        \* what started this run: "session", "trigger" or "rerun"
    sleptAt,          \* when this run entered time.sleep (-1: it did not)
    orders_df,        \* this run's orders_df
    views,            \* this run's age_df, gender_df, location_df, age_gender_df
    fetched,          \* the fetch functions that returned in this run
    metrics,          \* this run's headline metrics
    overview_tab,     \* this run's tab 1
    vip_tab,          \* this run's tab 6
    anomaly_tab,      \* this run's tab 7
    advanced_tab,     \* this run's tab 8
    display,          \* this run's filters and table of the latest orders
    rendered          \* the st.* notices this run has put on the page

vars == << now, client, cache, lastQuery, calls, cleared, pc, auto_refresh, refresh_interval,
           button, startedBy, sleptAt, orders_df, views, fetched, metrics, overview_tab,
           vip_tab, anomaly_tab, advanced_tab, display, rendered >>

cacheVars == << client, cache, lastQuery >>
widgetVars == << auto_refresh, refresh_interval, button, startedBy >>
tabVars == << overview_tab, vip_tab, anomaly_tab, advanced_tab, display >>
runVars == << orders_df, views, fetched, metrics, tabVars >>
callVars == << calls, cleared >>

NoCall == [kind |-> "none", expired |-> FALSE]

Init ==
    /\ now = 0
    /\ client = FALSE
    /\ cache = [q \in Queries |-> NoEntry]
    /\ lastQuery = [q \in Queries |-> -1]
    /\ calls = [q \in Queries |-> NoCall]
    /\ cleared = {}
    /\ pc = "sidebar"
    /\ auto_refresh = TRUE
    /\ refresh_interval = DefaultInterval
    /\ button = FALSE
    /\ startedBy = "session"
    /\ sleptAt = -1
    /\ orders_df = EmptyDataFrame
    /\ views = [v \in Views |-> EmptyDataFrame]
    /\ fetched = {}
    /\ metrics = NoMetrics
    /\ overview_tab = NoTab
    /\ vip_tab = NoTab
    /\ anomaly_tab = NoTab
    /\ advanced_tab = NoAdvancedTab
    /\ display = NoTab
    /\ rendered = {}

\* A new run of the script starts from its first line with nothing computed.
StartRun ==
    /\ pc' = "sidebar"
    /\ sleptAt' = -1
    /\ calls' = [q \in Queries |-> NoCall]
    /\ cleared' = {}
    /\ orders_df' = EmptyDataFrame
    /\ views' = [v \in Views |-> EmptyDataFrame]
    /\ fetched' = {}
    /\ metrics' = NoMetrics
    /\ overview_tab' = NoTab
    /\ vip_tab' = NoTab
    /\ anomaly_tab' = NoTab
    /\ advanced_tab' = NoAdvancedTab
    /\ display' = NoTab
    /\ rendered' = {}

\* ------------------------------------------------------ cached fetch calls
\* One call of the cached fetch function q at time `now`, answered in the way
\* `kind` and returning df:
\*   "hit"       a live entry is served and its elements are replayed;
\*   "raise"     the function runs, init_bigquery_client() raises (it reported
\*               with st.error) and the exception leaves the function: nothing
\*               is stored;
\*   "miss_ok"   the function runs, client.query answers df, df is stored;
\*   "miss_fail" the function runs, client.query raises, the except clause
\*               handles it and what it returns is stored.
CachedCall(q, kind, df) ==
    LET e == cache[q]
        live == IsLive(e, q, now)
        call == [calls EXCEPT ![q] = [kind |-> kind, expired |-> e.present /\ ~live]]
        h == OnQueryFailure(q)
    IN  \/ /\ kind = "hit"
           /\ live
           /\ df = e.table
           /\ rendered' = rendered \cup Replayed(e)
           /\ calls' = call
           /\ UNCHANGED << client, cache, lastQuery >>
        \/ /\ kind = "raise"
           /\ ~live
           /\ ~client
           /\ df = EmptyDataFrame
           /\ rendered' = rendered \cup {AuthError}
           /\ calls' = call
           /\ UNCHANGED << client, cache, lastQuery >>
        \/ /\ kind = "miss_ok"
           /\ ~live
           /\ df \in QueryResults(q)
           /\ client' = TRUE
           /\ cache' = Stored(cache, q, Entry(now, df, {}))
           /\ lastQuery' = [lastQuery EXCEPT ![q] = now]
           /\ rendered' = rendered
           /\ calls' = call
        \/ /\ kind = "miss_fail"
           /\ ~live
           /\ df = h.table
           /\ client' = TRUE
           /\ cache' = IF h.raises THEN cache ELSE Stored(cache, q, Entry(now, h.table, h.elements))
           /\ lastQuery' = [lastQuery EXCEPT ![q] = now]
           /\ rendered' = IF h.raises THEN rendered ELSE rendered \cup h.elements
           /\ calls' = call

CallKinds == {"hit", "raise", "miss_ok", "miss_fail"}

\* The call left the function by an exception.
Raised(q, kind) == kind = "raise" \/ (kind = "miss_fail" /\ OnQueryFailure(q).raises)

\* ----------------------------------------------------------------- the run
\* Lines 306-314: the sidebar. The widget values of this run are already read;
\* a clicked button clears st.cache_data before anything is fetched.
\* Variant: the button only shows its notice.
CacheAfterSidebarKept(clicked, c) == c

CacheAfterSidebar(clicked, c) == IF clicked THEN Clear(c) ELSE c

Sidebar ==
    /\ pc = "sidebar"
    /\ cache' = CacheAfterSidebar(button, cache)
    /\ lastQuery' = IF button THEN [q \in Queries |-> -1] ELSE lastQuery
    /\ rendered' = IF button THEN rendered \cup {RefreshedNotice} ELSE rendered
    /\ cleared' = IF button THEN {q \in Queries : IsLive(cache[q], q, now)} ELSE cleared
    /\ pc' = "fetch_orders"
    /\ UNCHANGED << now, client, calls, sleptAt >>
    /\ UNCHANGED widgetVars
    /\ UNCHANGED runVars

\* Line 325: orders_df = fetch_latest_orders(limit=10000), inside the try.
FetchLatestOrders ==
    /\ pc = "fetch_orders"
    /\ \E kind \in CallKinds, df \in OrdersResults \cup {EmptyDataFrame} :
          /\ CachedCall("orders", kind, df)
          /\ IF Raised("orders", kind)
             THEN /\ pc' = "except"
                  /\ UNCHANGED << orders_df, fetched >>
             ELSE /\ pc' = "metrics"
                  /\ orders_df' = df
                  /\ fetched' = fetched \cup {"orders"}
    /\ UNCHANGED << now, sleptAt, cleared, views, metrics >>
    /\ UNCHANGED tabVars
    /\ UNCHANGED widgetVars

\* Lines 327-355: an empty orders_df ends the try block with a warning;
\* otherwise the headline metrics are computed from orders_df.
Headline ==
    /\ pc = "metrics"
    /\ IF IsEmpty(orders_df)
       THEN /\ rendered' = rendered \cup {NoDataWarning}
            /\ pc' = "auto_refresh"
            /\ UNCHANGED metrics
       ELSE /\ metrics' = HeadlineMetrics(orders_df)
            /\ pc' = "tab1"
            /\ UNCHANGED rendered
    /\ UNCHANGED << now, sleptAt, orders_df, views, fetched >>
    /\ UNCHANGED tabVars
    /\ UNCHANGED callVars
    /\ UNCHANGED cacheVars
    /\ UNCHANGED widgetVars

\* Where a step of the try block goes: to the handler when it raised.
After(tab, next, handler) == IF tab.shown = "raised" THEN handler ELSE next

\* Lines 369-462: tab 1. With processed_time the run rewrites that column and
\* adds the column "hour" to orders_df, the copy of the cached value this run
\* received; then the charts of tab 1.
Tab1Step(at, next, handler) ==
    /\ pc = at
    /\ orders_df' = IF "processed_time" \in orders_df.columns
                    THEN [orders_df EXCEPT !.columns = @ \cup {"hour"}]
                    ELSE orders_df
    /\ overview_tab' = OverviewTab(orders_df)
    /\ pc' = After(overview_tab', next, handler)
    /\ UNCHANGED << now, sleptAt, views, fetched, metrics, rendered >>
    /\ UNCHANGED << vip_tab, anomaly_tab, advanced_tab, display >>
    /\ UNCHANGED callVars
    /\ UNCHANGED cacheVars
    /\ UNCHANGED widgetVars

Tab1 == Tab1Step("tab1", "tab2", "except")

\* Tabs 2-5 (lines 466, 529, 591, 641): each fetches its preference view.
FetchView(at, v, next) ==
    /\ pc = at
    /\ \E kind \in CallKinds, df \in ViewResults \cup {EmptyDataFrame} :
          /\ CachedCall(v, kind, df)
          /\ IF Raised(v, kind)
             THEN /\ pc' = "except"
                  /\ UNCHANGED << views, fetched >>
             ELSE /\ pc' = next
                  /\ views' = [views EXCEPT ![v] = df]
                  /\ fetched' = fetched \cup {v}
    /\ UNCHANGED << now, sleptAt, cleared, orders_df, metrics >>
    /\ UNCHANGED tabVars
    /\ UNCHANGED widgetVars

Tab2 == FetchView("tab2", "age", "tab3")
Tab3 == FetchView("tab3", "gender", "tab4")
Tab4 == FetchView("tab4", "location", "tab5")
Tab5 == FetchView("tab5", "age_gender", "tab6")

\* Lines 680-745: tab 6, the VIP-Premium subset and its figures.
Tab6Step(at, next, handler) ==
    /\ pc = at
    /\ vip_tab' = VipTab(orders_df)
    /\ pc' = After(vip_tab', next, handler)
    /\ UNCHANGED << now, sleptAt, orders_df, views, fetched, metrics, rendered >>
    /\ UNCHANGED << overview_tab, anomaly_tab, advanced_tab, display >>
    /\ UNCHANGED callVars
    /\ UNCHANGED cacheVars
    /\ UNCHANGED widgetVars

Tab6 == Tab6Step("tab6", "tab7", "except")

\* Lines 747-823: tab 7, the anomaly subset and its figures.
Tab7Step(at, next, handler) ==
    /\ pc = at
    /\ anomaly_tab' = AnomalyTab(orders_df)
    /\ pc' = After(anomaly_tab', next, handler)
    /\ UNCHANGED << now, sleptAt, orders_df, views, fetched, metrics, rendered >>
    /\ UNCHANGED << overview_tab, vip_tab, advanced_tab, display >>
    /\ UNCHANGED callVars
    /\ UNCHANGED cacheVars
    /\ UNCHANGED widgetVars

Tab7 == Tab7Step("tab7", "tab8", "except")

\* Lines 825-965: tab 8, the segment table and the satisfaction pivot.
Tab8Step(at, next, handler) ==
    /\ pc = at
    /\ advanced_tab' = AdvancedTab(orders_df)
    /\ pc' = After(advanced_tab'.revenue_by_segment,
                   After(advanced_tab'.pivot_satisfaction, next, handler), handler)
    /\ UNCHANGED << now, sleptAt, orders_df, views, fetched, metrics, rendered >>
    /\ UNCHANGED << overview_tab, vip_tab, anomaly_tab, display >>
    /\ UNCHANGED callVars
    /\ UNCHANGED cacheVars
    /\ UNCHANGED widgetVars

Tab8 == Tab8Step("tab8", "filters", "except")

\* Lines 967-1008: the run reads the two multiselects and the slider, filters
\* a copy of orders_df and shows its first rows. This ends the try block.
FiltersStep(at, next) ==
    /\ pc = at
    /\ \E categories_filter \in SUBSET FilterOptions(orders_df, "category"),
          locations_filter \in SUBSET FilterOptions(orders_df, "location"),
          limit_display \in DisplayLimits :
          display' = DisplayTable(orders_df, categories_filter, locations_filter,
                                  limit_display)
    /\ pc' = next
    /\ UNCHANGED << now, sleptAt, orders_df, views, fetched, metrics, rendered >>
    /\ UNCHANGED << overview_tab, vip_tab, anomaly_tab, advanced_tab >>
    /\ UNCHANGED callVars
    /\ UNCHANGED cacheVars
    /\ UNCHANGED widgetVars

Filters == FiltersStep("filters", "auto_refresh")

\* Lines 1010-1013: except Exception catches what the try block raised and
\* reports it; the script goes on after the try statement.
ExceptStep(at, next) ==
    /\ pc = at
    /\ rendered' = rendered \cup {CycleError}
    /\ pc' = next
    /\ UNCHANGED << now, sleptAt >>
    /\ UNCHANGED callVars
    /\ UNCHANGED cacheVars
    /\ UNCHANGED widgetVars
    /\ UNCHANGED runVars

Except == ExceptStep("except", "auto_refresh")

\* Variant: the sleep ignores the slider.
SleepDurationDefault(interval) == DefaultInterval

\* Line 1017: the script sleeps for the interval this run read.
SleepDuration(interval) == interval

\* Variant: the rerun is not conditional on the checkbox.
AfterRunAlways(auto) == "sleeping"

\* Lines 1016-1018: with auto_refresh the script sleeps and reruns; without,
\* it ends and the session waits for an interaction.
AfterRun(auto) == IF auto THEN "sleeping" ELSE "idle"

AutoRefresh ==
    /\ pc = "auto_refresh"
    /\ pc' = AfterRun(auto_refresh)
    /\ IF pc' = "sleeping"
       THEN /\ now + SleepDuration(refresh_interval) <= MaxTime
            /\ sleptAt' = now
       ELSE UNCHANGED sleptAt
    /\ UNCHANGED << now, rendered >>
    /\ UNCHANGED callVars
    /\ UNCHANGED cacheVars
    /\ UNCHANGED widgetVars
    /\ UNCHANGED runVars

\* Line 1018: time.sleep returned after the whole duration; st.rerun() starts
\* the next run with the widgets as they are and the button released.
Rerun ==
    /\ pc = "sleeping"
    /\ now' = sleptAt + SleepDuration(refresh_interval)
    /\ StartRun
    /\ button' = FALSE
    /\ startedBy' = "rerun"
    /\ UNCHANGED << auto_refresh, refresh_interval >>
    /\ UNCHANGED cacheVars

\* A user interaction (checkbox, slider, button) d seconds after the script
\* ended or began to sleep (before time.sleep returns): Streamlit starts a
\* run that reads the new widget values. A run in progress completes first:
\* the sleep between runs is the only point where a run is cut short.
Trigger ==
    /\ pc \in {"idle", "sleeping"}
    /\ \E d \in TriggerDelays :
          /\ now + d <= MaxTime
          /\ pc = "sleeping" => d < SleepDuration(refresh_interval)
          /\ now' = now + d
    /\ \E a \in BOOLEAN, i \in Intervals, b \in BOOLEAN :
          /\ auto_refresh' = a
          /\ refresh_interval' = i
          /\ button' = b
    /\ StartRun
    /\ startedBy' = "trigger"
    /\ UNCHANGED cacheVars

Next ==
    \/ Sidebar
    \/ FetchLatestOrders
    \/ Headline
    \/ Tab1
    \/ Tab2
    \/ Tab3
    \/ Tab4
    \/ Tab5
    \/ Tab6
    \/ Tab7
    \/ Tab8
    \/ Filters
    \/ Except
    \/ AutoRefresh
    \/ Rerun
    \/ Trigger

Spec == Init /\ [][Next]_vars

\* ------------------------------------------------------ fair specification
\* The script runs on one thread and each of its statements completes:
\* the steps of a run and the return of time.sleep are not postponed forever.
\* User interactions come or not.
ScriptStep ==
    \/ Sidebar
    \/ FetchLatestOrders
    \/ Headline
    \/ Tab1
    \/ Tab2
    \/ Tab3
    \/ Tab4
    \/ Tab5
    \/ Tab6
    \/ Tab7
    \/ Tab8
    \/ Filters
    \/ Except
    \/ AutoRefresh
    \/ Rerun

FairSpec == Spec /\ WF_vars(ScriptStep)

\* ------------------------------------------- the metrics as pure functions
\* The code of the else branch of the try block (lines 330-1008) and its
\* handler applied to any order table: the table is drawn at the start; the
\* headline metrics, the tabs computed from orders_df and the filtered table
\* follow in the order of the script (the view tabs, which do not read
\* orders_df, are left out).
AggInit ==
    /\ now = 0
    /\ client = FALSE
    /\ cache = [q \in Queries |-> NoEntry]
    /\ lastQuery = [q \in Queries |-> -1]
    /\ calls = [q \in Queries |-> NoCall]
    /\ cleared = {}
    /\ pc = "agg_metrics"
    /\ auto_refresh = TRUE
    /\ refresh_interval = DefaultInterval
    /\ button = FALSE
    /\ startedBy = "session"
    /\ sleptAt = -1
    /\ orders_df \in AllTables
    /\ views = [v \in Views |-> EmptyDataFrame]
    /\ fetched = {}
    /\ metrics = NoMetrics
    /\ overview_tab = NoTab
    /\ vip_tab = NoTab
    /\ anomaly_tab = NoTab
    /\ advanced_tab = NoAdvancedTab
    /\ display = NoTab
    /\ rendered = {}

AggHeadline ==
    /\ pc = "agg_metrics"
    /\ metrics' = HeadlineMetrics(orders_df)
    /\ pc' = "agg_tab1"
    /\ UNCHANGED << now, sleptAt, orders_df, views, fetched, rendered >>
    /\ UNCHANGED tabVars
    /\ UNCHANGED callVars
    /\ UNCHANGED cacheVars
    /\ UNCHANGED widgetVars

AggTab1 == Tab1Step("agg_tab1", "agg_tab6", "agg_except")
AggTab6 == Tab6Step("agg_tab6", "agg_tab7", "agg_except")
AggTab7 == Tab7Step("agg_tab7", "agg_tab8", "agg_except")
AggTab8 == Tab8Step("agg_tab8", "agg_filters", "agg_except")
AggFilters == FiltersStep("agg_filters", "agg_done")
AggExcept == ExceptStep("agg_except", "agg_done")

AggNext ==
    \/ AggHeadline
    \/ AggTab1
    \/ AggTab6
    \/ AggTab7
    \/ AggTab8
    \/ AggFilters
    \/ AggExcept

AggSpec == AggInit /\ [][AggNext]_vars

\* ------------------------------------------------------------- properties
\* Where the script calls the fetch function of q.
CallSite(q) ==
    CASE q = "orders" -> "fetch_orders"
      [] q = "age" -> "tab2"
      [] q = "gender" -> "tab3"
      [] q = "location" -> "tab4"
      [] q = "age_gender" -> "tab5"

\* This step is the call of the fetch function of q.
CallStep(q) == pc = CallSite(q) /\ pc' # pc

\* client.query ran in the call of q made in this run.
QueryRan(c) == c.kind \in {"miss_ok", "miss_fail"}

\* The run has reached the end of the try block or of its handler.
RunOver == pc \in {"auto_refresh", "sleeping", "idle"}

\* The fixed ttl policy: 10 seconds for the order table, 30 for each view.
PolicyTTL(q) == IF q = "orders" THEN 10 ELSE 30

\* C1: a call of a fetch function made less than ttl after client.query last
\* ran for the same query, with no clear in between, is answered from the
\* cache: client.query does not run again and the stored table is returned.
C1_OneFetchWithinTtl ==
    [][\A q \in Queries :
          (CallStep(q) /\ lastQuery[q] # -1 /\ now - lastQuery[q] < TTL(q))
          => /\ calls'[q].kind = "hit"
             /\ lastQuery'[q] = lastQuery[q]
             /\ cache'[q] = cache[q]
             /\ (IF q = "orders" THEN orders_df' ELSE views'[q]) = cache[q].table]_vars

\* C1 witness: the order table is served from the cache some seconds after
\* the query that stored it.
C1_Witness ==
    /\ calls["orders"].kind = "hit"
    /\ lastQuery["orders"] >= 0
    /\ now > lastQuery["orders"]

\* C2: the clear of the refresh button leaves no entry for any of the five
\* queries, and a call for a query whose function has not run since the last
\* clear is never answered from the cache: the fetch function runs (and its
\* query too, once the client exists).
C2_ClearThenFetch ==
    [][/\ (pc = "sidebar" /\ button /\ pc' # pc)
          => \A q \in Queries : ~cache'[q].present /\ lastQuery'[q] = -1
       /\ \A q \in Queries :
             (CallStep(q) /\ lastQuery[q] = -1)
             => /\ calls'[q].kind # "hit"
                /\ client => QueryRan(calls'[q])]_vars

\* C2 witness: a view entry that was live when the button cleared the cache
\* is fetched anew in the same run.
C2_Witness ==
    /\ "gender" \in cleared
    /\ calls["gender"].kind = "miss_ok"

\* C3 (as claimed): a failed fetch leaves the cache as it was, so no entry
\* ever holds the result of a failed query.
C3_FailureNeverStored ==
    \A q \in Queries : cache[q].present => cache[q].elements = {}

\* C4: a call is answered from the cache only when the entry's age is below
\* 10 seconds (order table) or 30 seconds (views); a call that finds an entry
\* of that age or older is not answered from it, and the table it returns is
\* stored at the current time in its place.
C4_ServedOnlyWithinTtl ==
    [][\A q \in Queries :
          CallStep(q)
          => /\ calls'[q].kind = "hit"
                => cache[q].present /\ now - cache[q].ts < PolicyTTL(q)
             /\ (cache[q].present /\ now - cache[q].ts >= PolicyTTL(q))
                => /\ QueryRan(calls'[q])
                   /\ cache'[q].present
                   /\ cache'[q].ts = now
                   /\ (IF q = "orders" THEN orders_df' ELSE views'[q]) = cache'[q].table]_vars

\* C4 witness: in one run the order entry and a view entry were both found
\* expired and fetched again.
C4_Witness ==
    /\ calls["orders"].expired
    /\ calls["orders"].kind = "miss_ok"
    /\ calls["age"].expired
    /\ calls["age"].kind = "miss_ok"

\* C5: when client.query fails in a call, the fetch function returns (no
\* exception reaches the run's handler), what it returns is an empty table,
\* and a notice about that query is on the page; for the order table the
\* run adds its warning that no data was found.
C5_FailureIsEmptyTableAndNotice ==
    \A q \in Queries :
        calls[q].kind = "miss_fail"
        => /\ q \in fetched
           /\ IsEmpty(IF q = "orders" THEN orders_df ELSE views[q])
           /\ \E e \in rendered : e.about = q /\ e.level \in {"warning", "error"}
           /\ pc # "except"
           /\ CycleError \notin rendered
           /\ (q = "orders" /\ RunOver) => NoDataWarning \in rendered

\* C5 witness: the order query failed with no entry in the cache and the run
\* ended with the warning.
C5_Witness ==
    /\ calls["orders"].kind = "miss_fail"
    /\ ~calls["orders"].expired
    /\ RunOver
    /\ NoDataWarning \in rendered

\* C6: with the checkbox off, the run that reaches the end of the script
\* stops there without sleeping, no rerun follows, and the next run is
\* started by a user interaction only.
C6_OneCyclePerTrigger ==
    [][/\ (pc = "auto_refresh" /\ ~auto_refresh /\ pc' # pc)
          => pc' = "idle" /\ now' = now /\ sleptAt' = -1
       /\ (pc = "idle" /\ pc' # pc)
          => pc' = "sidebar" /\ startedBy' = "trigger"
       /\ (pc' = "sleeping" \/ startedBy' = "rerun") => auto_refresh']_vars

\* C6 witness: a run started by an interaction, with the checkbox off, has
\* fetched and has ended; the session waits.
C6_Witness ==
    /\ pc = "idle"
    /\ ~auto_refresh
    /\ startedBy = "trigger"
    /\ "orders" \in fetched

\* C7: with the checkbox on, the run that reaches the end of the script goes
\* to sleep; a sleep that is not interrupted lasts exactly the interval this
\* run read from the slider, a value in 5..60, and the rerun that follows
\* keeps the widgets; and the end of every such run leads to the start of
\* another run (within the clock's bound).
C7_SleepThenRerun ==
    /\ [][/\ (pc = "auto_refresh" /\ auto_refresh /\ pc' # pc)
             => /\ pc' = "sleeping"
                /\ sleptAt' = now
                /\ now' = now
                /\ refresh_interval \in MinInterval..MaxInterval
          /\ (pc = "sleeping" /\ startedBy' = "rerun" /\ pc' # pc)
             => /\ pc' = "sidebar"
                /\ now' = sleptAt + refresh_interval
                /\ refresh_interval' = refresh_interval
                /\ auto_refresh' = auto_refresh]_vars
    /\ (pc = "auto_refresh" /\ auto_refresh /\ now + refresh_interval <= MaxTime)
          ~> (pc = "sidebar")

\* C7 witness: a run started by st.rerun() after a sleep of the shortest
\* interval, which an earlier interaction had set.
C7_Witness ==
    /\ pc = "sidebar"
    /\ startedBy = "rerun"
    /\ refresh_interval = MinInterval
    /\ now > MinInterval

\* C8: in a run started by a click on the refresh button no call is answered
\* from the cache, and every table the run holds is the one stored by the
\* query of this run.
C8_ManualRefreshFetchesAll ==
    button =>
        \A q \in Queries :
            /\ calls[q].kind # "hit"
            /\ q \in fetched
               => /\ QueryRan(calls[q])
                  /\ cache[q].present
                  /\ cache[q].ts = now
                  /\ (IF q = "orders" THEN orders_df.rows ELSE views[q].rows)
                        = cache[q].table.rows

\* C8 witness: the click found all five entries live, and the run has
\* fetched all five again.
C8_Witness ==
    /\ button
    /\ cleared = Queries
    /\ fetched = Queries
    /\ RunOver

\* C9: when the query of a view fails in a run, that view is the empty
\* table, no exception reaches the run's handler, and at the end of the run
\* the headline metrics are those of the order table, all four views have
\* been fetched and tab 7 has been computed.
C9_ViewFailureIsLocal ==
    \A v \in Views :
        calls[v].kind = "miss_fail"
        => /\ pc # "except"
           /\ CycleError \notin rendered
           /\ v \in fetched => views[v] = EmptyDataFrame
           /\ metrics = HeadlineMetrics(cache["orders"].table)
           /\ RunOver => /\ v \in fetched
                         /\ Views \subseteq fetched
                         /\ anomaly_tab = AnomalyTab(cache["orders"].table)

\* C9 witness: the age view failed, a later view was fetched, and the run
\* ended with the anomaly figures.
C9_Witness ==
    /\ RunOver
    /\ calls["age"].kind = "miss_fail"
    /\ calls["location"].kind = "miss_ok"
    /\ fetched = Queries
    /\ anomaly_tab.shown = "figures"

\* ------------------------------------------------- properties of the metrics
IsRatio(r) == DOMAIN r = {"num", "den"}
InUnitInterval(r) == IsRatio(r) /\ r.den > 0 /\ 0 <= r.num /\ r.num <= PercentScale * r.den
IsZero(r) == IsRatio(r) /\ r.num = 0

\* The rows the warehouse flagged as anomalies (none without the column).
FlaggedRows(df) ==
    IF "is_anomaly" \in df.columns
    THEN {i \in 1..Len(df.rows) : df.rows[i].is_anomaly = "True"}
    ELSE {}

\* C10 (as claimed): for any order table with the columns the query selects,
\* the anomaly rate is in [0,1], is 0 exactly when the table is empty, and
\* never is a division fault.
C10_RateZeroIffEmpty ==
    (pc = "agg_done" /\ OrderColumns \subseteq orders_df.columns)
    => /\ InUnitInterval(metrics.anomaly_delta)
       /\ IsZero(metrics.anomaly_delta) <=> orders_df.rows = << >>

\* C10 (amended): the anomaly rate is never a division fault, is in [0,1],
\* is 0 for the empty table, and is 0 exactly when no row is flagged; the
\* rate of tab 7, computed when a row is flagged, is the same rate.
C10_RateInUnitInterval ==
    pc = "agg_done"
    => /\ InUnitInterval(metrics.anomaly_delta)
       /\ orders_df.rows = << >> => IsZero(metrics.anomaly_delta)
       /\ IsZero(metrics.anomaly_delta) <=> FlaggedRows(orders_df) = {}
       /\ metrics.anomaly_delta.num * Len(orders_df.rows)
             = Cardinality(FlaggedRows(orders_df)) * PercentScale * metrics.anomaly_delta.den
       /\ anomaly_tab.shown = "figures"
          => /\ InUnitInterval(anomaly_tab.anomaly_rate)
             /\ anomaly_tab.anomaly_rate = metrics.anomaly_delta

\* C10 witness: a table with a flagged row and an unflagged one, its rate
\* strictly between 0 and 1.
C10_Witness ==
    /\ pc = "agg_done"
    /\ anomaly_tab.shown = "figures"
    /\ metrics.anomaly_delta.num > 0
    /\ metrics.anomaly_delta.num < PercentScale * metrics.anomaly_delta.den

\* ---------------------------------------- properties of the derived tables
\* The sum of the total_revenue column of a segment table.
RECURSIVE SumTotals(_)
SumTotals(t) == IF Len(t) = 0 THEN 0 ELSE Head(t).total_revenue + SumTotals(Tail(t))

\* The sum of the purchase amounts of the rows of df whose index is in S.
RECURSIVE AmountOver(_, _)
AmountOver(df, S) ==
    IF S = {} THEN 0
    ELSE LET i == CHOOSE j \in S : TRUE
         IN  df.rows[i].purchase_amount_usd + AmountOver(df, S \ {i})

\* The metric code ran to its end on a table with all the columns.
AggDone == pc = "agg_done" /\ OrderColumns \subseteq orders_df.columns

\* C11 (as claimed): for any order table, rows with a null customer segment
\* included, the total_revenue column of the segment table sums to the
\* headline total revenue.
C11_SegmentTotalsSumToRevenue ==
    (AggDone /\ advanced_tab.revenue_by_segment.shown = "table")
    => SumTotals(advanced_tab.revenue_by_segment.rows) = metrics.total_revenue

\* C12: with nothing selected in either multiselect the filtered table is
\* its input: the same columns and the same rows in the same order.
C12_EmptySelectionKeepsAll ==
    (pc = "agg_done" /\ display.shown = "table"
        /\ display.categories_filter = {} /\ display.locations_filter = {})
    => /\ display.filtered_df = orders_df
       /\ display.caption.total = Len(orders_df.rows)

\* C12 witness: nothing is selected and the table has two different rows.
C12_Witness ==
    /\ pc = "agg_done"
    /\ display.shown = "table"
    /\ display.categories_filter = {}
    /\ display.locations_filter = {}
    /\ Len(display.filtered_df.rows) >= 2
    /\ display.filtered_df.rows[1] # display.filtered_df.rows[2]

\* The indices of the rows of df that satisfy every filter with a selection.
Satisfying(df, A, X) ==
    { i \in 1..Len(df.rows) :
         /\ A # {} => df.rows[i].category \in A
         /\ X # {} => df.rows[i].location \in X }

\* t is the rows of df whose index is in S, in the order of df.
IsSelection(t, df, S) ==
    /\ Len(t) = Cardinality(S)
    /\ \A k \in 1..Len(t) :
          t[k] = df.rows[CHOOSE i \in S : Cardinality({j \in S : j <= i}) = k]

\* C13: for any table, category selection A and location selection X, the
\* filtered table is what filtering by A alone and then filtering that result
\* by X alone gives, its rows are the rows of the input that satisfy every
\* filter with a selection (in the input's order), and so every row it
\* returns satisfies them all.
C13_FiltersAreConjunctive ==
    (pc = "agg_done" /\ display.shown = "table")
    => LET A == display.categories_filter
           X == display.locations_filter
           result == display.filtered_df
       IN  /\ result = filtered_df(filtered_df(orders_df, A, {}), {}, X)
           /\ IsSelection(result.rows, orders_df, Satisfying(orders_df, A, X))
           /\ \A i \in 1..Len(result.rows) :
                 /\ A # {} => result.rows[i].category \in A
                 /\ X # {} => result.rows[i].location \in X

\* C13 witness: both filters have a selection, a row passes both, a row
\* passes the category filter only and a row passes the location filter only.
C13_Witness ==
    /\ pc = "agg_done"
    /\ display.shown = "table"
    /\ display.categories_filter # {}
    /\ display.locations_filter # {}
    /\ Len(display.filtered_df.rows) = 1
    /\ \E i \in 1..Len(orders_df.rows) :
          /\ orders_df.rows[i].category \in display.categories_filter
          /\ orders_df.rows[i].location \notin display.locations_filter
    /\ \E i \in 1..Len(orders_df.rows) :
          /\ orders_df.rows[i].category \notin display.categories_filter
          /\ orders_df.rows[i].location \in display.locations_filter

\* The satisfaction levels that occur in the table.
LevelsIn(df) == Unique(df.rows, "satisfaction_level") \ {"NA"}

\* The satisfaction levels that occur on orders that have a category.
LevelsWithCategory(df) ==
    { df.rows[i].satisfaction_level :
         i \in {j \in 1..Len(df.rows) : df.rows[j].category # "NA"} } \ {"NA"}

\* The levels of L in the order Very Satisfied, Satisfied, Neutral, Dissatisfied.
InPreferenceOrder(L) ==
    SelectSeq(<< "Very Satisfied", "Satisfied", "Neutral", "Dissatisfied" >>, LAMBDA l : l \in L)

Elements(t) == {t[i] : i \in 1..Len(t)}

\* C14 (as claimed): the columns of the satisfaction pivot are the levels of
\* the fixed sequence that occur in the table, in the order of the sequence,
\* and exactly the sequence when all four occur.
C14_PivotColumnsFollowSequence ==
    (AggDone /\ advanced_tab.pivot_satisfaction.shown = "pivot")
    => advanced_tab.pivot_satisfaction.columns = InPreferenceOrder(LevelsIn(orders_df))

\* C14 (amended): when a level of the fixed sequence occurs on an order that
\* has a category, the columns of the pivot are those levels in the order of
\* the sequence (exactly the sequence when all four occur) and no other
\* level is a column; when none occurs, the pivot keeps a column for each
\* level it has.
C14_PivotColumnsOfGroupedLevels ==
    (AggDone /\ advanced_tab.pivot_satisfaction.shown = "pivot")
    => LET columns == advanced_tab.pivot_satisfaction.columns
           levels == LevelsWithCategory(orders_df)
           canonical == InPreferenceOrder(levels)
       IN  /\ canonical # << >> => columns = canonical
           /\ Len(canonical) = 4
                 => columns = << "Very Satisfied", "Satisfied", "Neutral", "Dissatisfied" >>
           /\ canonical = << >>
                 => Elements(columns) = levels /\ Len(columns) = Cardinality(levels)

\* C14 witness: the four levels of the sequence occur, the pivot has the four
\* columns.
C14_Witness ==
    /\ pc = "agg_done"
    /\ advanced_tab.pivot_satisfaction.shown = "pivot"
    /\ Len(advanced_tab.pivot_satisfaction.columns) = 4
    /\ orders_df.rows[1].satisfaction_level = "Dissatisfied"
    /\ OtherLevel \in LevelsIn(orders_df)

\* The rows of VIP customers with a Premium amount.
VipPremiumRows(df) ==
    { i \in 1..Len(df.rows) :
         df.rows[i].customer_segment = "VIP" /\ df.rows[i].amount_category = "Premium" }

\* C15: for any order table with at least one row, the order count is the
\* number of rows, the total revenue the sum of the amounts, the average
\* order value their quotient; the VIP-Premium subset is the rows with
\* segment VIP and amount category Premium, in order, and its count and
\* revenue are those of these rows. The three orders 10 VIP Premium, 20
\* Regular Standard, 30 VIP Premium give 60, 20, 2 and 40.
C15_HeadlineAndVipPremium ==
    (AggDone /\ orders_df.rows # << >>)
    => LET n == Len(orders_df.rows)
           vp == VipPremiumRows(orders_df)
       IN  /\ metrics.total_orders = n
           /\ metrics.total_revenue = AmountOver(orders_df, 1..n)
           /\ IsRatio(metrics.avg_order_value)
           /\ metrics.avg_order_value.num * n
                 = metrics.total_revenue * metrics.avg_order_value.den
           /\ vp = {} => vip_tab.shown = "no_vip_premium"
           /\ vp # {}
                 => /\ vip_tab.shown = "figures"
                    /\ IsSelection(vip_tab.vip_premium_df, orders_df, vp)
                    /\ vip_tab.count = Cardinality(vp)
                    /\ vip_tab.total_revenue = AmountOver(orders_df, vp)
           /\ orders_df.rows = ScenarioTable.rows
                 => /\ metrics.total_revenue = 60
                    /\ metrics.avg_order_value.num = 20 * metrics.avg_order_value.den
                    /\ vip_tab.count = 2
                    /\ vip_tab.total_revenue = 40

\* C15 witness: the three orders of the scenario, with the VIP-Premium
\* figures shown.
C15_Witness ==
    /\ pc = "agg_done"
    /\ orders_df.rows = ScenarioTable.rows
    /\ metrics.total_orders = 3
    /\ vip_tab.shown = "figures"

\* The results of the tabs computed from orders_df.
TabResults ==
    { overview_tab, vip_tab, anomaly_tab, advanced_tab.revenue_by_segment,
      advanced_tab.pivot_satisfaction }

CycleRaised == \E q \in Queries : calls[q].kind = "raise"

\* C18 (as claimed): a cycle in which an exception was raised does not go
\* on: the script does not reach the statements after the try block, and so
\* neither sleeps nor ends as a cycle that succeeded does.
C18_RaisePropagates ==
    CycleRaised => pc \notin {"auto_refresh", "sleeping", "idle"}

\* C19 (as claimed): after a cycle in which the client initialisation
\* raised, no fetch is attempted until a user interaction starts a cycle.
\* While no client was ever built every earlier cycle failed in this way, so
\* a cycle started by st.rerun() with no client built follows such a cycle:
\* it must not call fetch_latest_orders.
C19_RetryOnlyOnTrigger ==
    [][(pc = "fetch_orders" /\ ~client /\ startedBy = "rerun") => pc' = pc]_vars

\* The table the run holds for query q.
TableOf(q) == IF q = "orders" THEN orders_df ELSE views[q]

\* A warning or an error about query q is on the page.
FailureNotice(q) == \E e \in rendered : e.about = q /\ e.level \in {"warning", "error"}

\* C20: in every cycle, a query that failed or a client initialisation that
\* raised has its warning or error on the page, and the handler's error is
\* there at the end of a cycle in which an exception was raised; a cycle
\* that holds the empty table of a failed query, also when the cache served
\* it, shows the warning or error of that query, and for the order table the
\* warning that no data was found.
C20_NoSilentFailure ==
    /\ \A q \in Queries :
          /\ calls[q].kind = "miss_fail" => FailureNotice(q)
          /\ calls[q].kind = "raise"
                => AuthError \in rendered /\ (RunOver => CycleError \in rendered)
          /\ (q \in fetched /\ TableOf(q) = EmptyDataFrame) => FailureNotice(q)
    /\ ("orders" \in fetched /\ IsEmpty(orders_df) /\ RunOver) => NoDataWarning \in rendered
    /\ ((\E t \in TabResults : t.shown = "raised") /\ RunOver) => CycleError \in rendered

\* C20 witness: a run that ended was served from the cache the empty table
\* of a failed order query, and shows its error and the warning.
C20_Witness ==
    /\ RunOver
    /\ calls["orders"].kind = "hit"
    /\ "orders" \in fetched
    /\ orders_df = EmptyDataFrame
    /\ FailureNotice("orders")
    /\ NoDataWarning \in rendered

\* ------------------------------------------------ properties of the frame
Min(a, b) == IF a < b THEN a ELSE b

\* C21: the table shown is the first min(limit, |filtered|) rows of the
\* filtered table, the filtered table being the rows of the order table
\* that pass the filters; and whatever the selection and the limit, the
\* headline metrics and the tables of the tabs are those of the whole
\* order table, unfiltered and untruncated.
C21_TruncationAfterFiltering ==
    (AggDone /\ display.shown = "table")
    => LET filtered == display.filtered_df
           shown == Min(display.limit_display, Len(filtered.rows))
           whole == 1..Len(orders_df.rows)
       IN  /\ IsSelection(filtered.rows, orders_df,
                  Satisfying(orders_df, display.categories_filter, display.locations_filter))
           /\ display.displayed.rows = SubSeq(filtered.rows, 1, shown)
           /\ display.caption = [lines |-> shown, total |-> Len(filtered.rows)]
           /\ metrics.total_orders = Len(orders_df.rows)
           /\ metrics.total_revenue = AmountOver(orders_df, whole)
           /\ metrics = HeadlineMetrics(orders_df)
           /\ vip_tab = VipTab(orders_df)
           /\ anomaly_tab = AnomalyTab(orders_df)
           /\ advanced_tab = AdvancedTab(orders_df)

\* C21 witness: a filter has a selection that drops an order, more orders
\* pass it than the limit, and the table shown stops at the limit, short of
\* an order the headline metrics count.
C21_Witness ==
    /\ AggDone
    /\ display.shown = "table"
    /\ display.categories_filter # {}
    /\ Len(display.filtered_df.rows) < Len(orders_df.rows)
    /\ display.limit_display < Len(display.filtered_df.rows)
    /\ Len(display.displayed.rows) = display.limit_display
    /\ display.filtered_df.rows[Len(display.filtered_df.rows)] \notin Elements(display.displayed.rows)
    /\ metrics.total_orders = Len(orders_df.rows)

\* C22 (as claimed): from its fetch to the end of the cycle no step changes
\* the columns, rows or values of the order table the cycle holds, and a
\* call answered from the cache leaves the entry it read as it was.
C22_RawTableNeverMutated ==
    [][ /\ ("orders" \in fetched /\ pc' # "sidebar") => orders_df' = orders_df
        /\ \A q \in Queries :
              (CallStep(q) /\ calls'[q].kind = "hit") => cache'[q] = cache[q] ]_vars

\* ----------------------------------------- properties of the cycle's order
\* Something of this run was computed from the order table.
Computed ==
    \/ metrics # NoMetrics
    \/ \E t \in TabResults : t # NoTab
    \/ display # NoTab

\* C23: in a run the order table is obtained, by one call of its fetch
\* function, before any headline metric or tab table is computed; the rows
\* the run holds stay those the call returned; and every headline metric,
\* tab table and filtered table of the run is computed from that one table.
C23_OneRawTablePerCycle ==
    /\ [](Computed => /\ "orders" \in fetched
                      /\ calls["orders"].kind \in {"hit", "miss_ok", "miss_fail"}
                      /\ cache["orders"].present)
    /\ [](("orders" \in fetched /\ cache["orders"].present)
           => LET raw == cache["orders"].table
              IN  /\ orders_df.rows = raw.rows
                  /\ raw.columns \subseteq orders_df.columns
                  /\ metrics # NoMetrics
                        => /\ metrics = HeadlineMetrics(raw)
                           /\ metrics.total_orders = Len(raw.rows)
                           /\ metrics.total_revenue = AmountOver(raw, 1..Len(raw.rows))
                           /\ metrics.anomalies_count = Len(SelectAnomalies(raw.rows))
                  /\ overview_tab # NoTab => overview_tab = OverviewTab(raw)
                  /\ vip_tab # NoTab => vip_tab = VipTab(raw)
                  /\ anomaly_tab # NoTab => anomaly_tab = AnomalyTab(raw)
                  /\ advanced_tab # NoAdvancedTab => advanced_tab = AdvancedTab(raw)
                  /\ display # NoTab
                        => display.filtered_df.rows
                              = filtered_df(raw, display.categories_filter,
                                            display.locations_filter).rows)
    /\ [][ /\ (calls'["orders"] # calls["orders"] /\ pc' # "sidebar")
               => (pc = "fetch_orders" /\ calls["orders"] = NoCall /\ ~Computed)
           /\ ("orders" \in fetched /\ pc' # "sidebar")
               => (cache'["orders"] = cache["orders"] /\ "orders" \in fetched') ]_vars

\* C23 witness: a run that was served a two-row order table from the cache
\* ended with its metrics, every tab and the table of the latest orders.
C23_Witness ==
    /\ RunOver
    /\ calls["orders"].kind = "hit"
    /\ Len(orders_df.rows) = 2
    /\ metrics.total_orders = 2
    /\ \A t \in TabResults : t # NoTab
    /\ display.shown = "table"

\* --------------------------------------------------- properties of the views
\* C24 (as claimed): at the end of every run in which the orders call
\* returned a table, each of the four preference views has been obtained,
\* whatever that table is (rows, no row, the empty table of a failed query)
\* and whatever the other view calls gave.
C24_ViewsAlwaysObtained ==
    (RunOver /\ "orders" \in fetched) => Views \subseteq fetched

\* ------------------------------------------- properties of the cache entries
\* The queries whose entry or last fetch time the step changes.
Touched == {q \in Queries : cache'[q] # cache[q] \/ lastQuery'[q] # lastQuery[q]}

\* The step is the st.cache_data.clear() of a clicked button.
ClearStep == pc = "sidebar" /\ button

\* C25: a step changes the entry (payload, fetch time) of a query only when
\* it is the call of that query's own fetch function or the clear; so a
\* miss, a refetch or the passing of another query's ttl leaves every other
\* entry as it was, and only the clear changes several entries at once.
C25_EntriesAreIndependent ==
    [][ /\ \A q \in Touched : CallStep(q) \/ ClearStep
        /\ Cardinality(Touched) > 1 => ClearStep ]_vars

\* C25 witness: the orders entry had expired and was fetched again while
\* the entry of the age view, older and still live, was served as it was.
C25_Witness ==
    /\ calls["orders"].kind = "miss_ok"
    /\ calls["orders"].expired
    /\ calls["age"].kind = "hit"
    /\ cache["age"].present
    /\ cache["orders"].present
    /\ cache["age"].ts < cache["orders"].ts

====
